---------------------------- MODULE Spec2Model ----------------------------
(***************************************************************************)
(* Model of the startup pitch agent: SimpleAgent.run and its               *)
(* _execute_* wrappers and _format_result (src/agent.py).                  *)
(*                                                                         *)
(* Text is modelled as a sequence of characters over a small alphabet, so  *)
(* that json.dumps and json.loads are real conversions: dumps quotes and   *)
(* escapes, loads is a recursive-descent parser that can fail.  Object     *)
(* keys are one character long ("p" stands for the key "pitch", "t" for    *)
(* "tool_result", and so on), and a name such as a tool's name is one      *)
(* character of the text it occurs in.  json.dumps(..., indent=2) only     *)
(* adds white space, which json.loads skips; the model writes the compact  *)
(* form.                                                                   *)
(*                                                                         *)
(* Specifications:                                                         *)
(*   Spec        the runs of one agent while every GalileoLogger call      *)
(*               returns; the tools' constructors and execute may raise,   *)
(*               and the registry may lack pipeline tools.                 *)
(*   SpecSink    the same runs while the observability sink may go down    *)
(*               and come back: GalileoLogger calls raise while it is      *)
(*               down.                                                     *)
(*   SpecFormat  one call of _format_result on a results list drawn from   *)
(*               FormatInputs.                                             *)
(***************************************************************************)
EXTENDS Naturals, Sequences, FiniteSets, TLC

\* Bounds of the model.
MaxPitchLen == 2
MaxRawLen == 3
MaxRuns == 2
MaxCalls == 4

\* The length the generators' prompts ask the language model to stay under.
PitchLimit == 500

---------------------------------------------------------------------------
\* Characters and strings.

DQ == "\""
BS == "\\"

\* Characters a model response (the pitch text) is made of.
PitchChars == {"x", DQ, BS, "}"}

RECURSIVE StringsUpTo(_, _)
StringsUpTo(chars, n) ==
    IF n = 0 THEN {<<>>}
    ELSE LET shorter == StringsUpTo(chars, n - 1)
         IN  shorter \cup {Append(s, c) : s \in shorter, c \in chars}

\* Texts the language model may return (response.choices[0].message.content).
LLMTexts == StringsUpTo(PitchChars, MaxPitchLen)

\* Python values: a str, an int, a dict (insertion-ordered key/value pairs)
\* or a list.
PyStr(s) == [t |-> "str", s |-> s]
PyInt(n) == [t |-> "int", n |-> n]
PyDict(pairs) == [t |-> "dict", m |-> pairs]
PyList(items) == [t |-> "list", l |-> items]

PitchKey == <<"p">>
ToolResultKey == <<"t">>
FormattedOutputKey == <<"f">>
MetadataKey == <<"m">>
CharacterCountKey == <<"c">>
ModeKey == <<"d">>

EmptyStr == PyStr(<<>>)
NoPitchSentinel == PyStr(<<"No startup pitch generated.">>)

\* dict[key] = value: replaces the value of an existing key, else appends.
DictSet(pairs, key, value) ==
    IF \E i \in 1..Len(pairs) : pairs[i][1] = key
    THEN [i \in 1..Len(pairs) |->
             IF pairs[i][1] = key THEN <<key, value>> ELSE pairs[i]]
    ELSE Append(pairs, <<key, value>>)

\* dict.get(key, default)
DictGet(pairs, key, default) ==
    IF \E i \in 1..Len(pairs) : pairs[i][1] = key
    THEN pairs[CHOOSE i \in 1..Len(pairs) : pairs[i][1] = key][2]
    ELSE default

---------------------------------------------------------------------------
\* json.dumps

\* The escaped form of s[lo..hi]: a backslash before each quote and each
\* backslash (computed by halves, which keeps the evaluation shallow for a
\* long text).
RECURSIVE EscapeRange(_, _, _)
EscapeRange(s, lo, hi) ==
    IF lo > hi THEN <<>>
    ELSE IF lo = hi
    THEN (IF s[lo] \in {DQ, BS} THEN <<BS, s[lo]>> ELSE <<s[lo]>>)
    ELSE LET mid == (lo + hi) \div 2
         IN  EscapeRange(s, lo, mid) \o EscapeRange(s, mid + 1, hi)

json_escape(s) == EscapeRange(s, 1, Len(s))

json_dumps_str(s) == <<DQ>> \o json_escape(s) \o <<DQ>>

Digits == <<"0", "1", "2", "3", "4", "5", "6", "7", "8", "9">>
DigitChars == {Digits[i] : i \in 1..10}
DigitValue(c) == (CHOOSE i \in 1..10 : Digits[i] = c) - 1

RECURSIVE json_dumps_int(_)
json_dumps_int(n) ==
    IF n < 10 THEN <<Digits[n + 1]>>
    ELSE json_dumps_int(n \div 10) \o <<Digits[(n % 10) + 1]>>

RECURSIVE json_dumps(_)
RECURSIVE DumpElements(_, _)
DumpElements(items, i) ==
    IF i > Len(items) THEN <<>>
    ELSE (IF i > 1 THEN <<",">> ELSE <<>>)
         \o json_dumps(items[i]) \o DumpElements(items, i + 1)

RECURSIVE DumpMembers(_, _)
DumpMembers(pairs, i) ==
    IF i > Len(pairs) THEN <<>>
    ELSE (IF i > 1 THEN <<",">> ELSE <<>>)
         \o json_dumps_str(pairs[i][1]) \o <<":">> \o json_dumps(pairs[i][2])
         \o DumpMembers(pairs, i + 1)

json_dumps(v) ==
    CASE v.t = "str" -> json_dumps_str(v.s)
      [] v.t = "int" -> json_dumps_int(v.n)
      [] v.t = "dict" -> <<"{">> \o DumpMembers(v.m, 1) \o <<"}">>
      [] v.t = "list" -> <<"[">> \o DumpElements(v.l, 1) \o <<"]">>

---------------------------------------------------------------------------
\* json.loads

ScanFail == [ok |-> FALSE, val |-> <<>>, next |-> 0]
ParseFail == [ok |-> FALSE, val |-> PyInt(0), next |-> 0]

\* The body of a string literal from position i (after the opening quote).
RECURSIVE ScanString(_, _, _)
ScanString(s, i, acc) ==
    IF i > Len(s) THEN ScanFail
    ELSE IF s[i] = DQ THEN [ok |-> TRUE, val |-> acc, next |-> i + 1]
    ELSE IF s[i] = BS
         THEN IF i + 1 <= Len(s) /\ s[i + 1] \in {DQ, BS}
              THEN ScanString(s, i + 2, Append(acc, s[i + 1]))
              ELSE ScanFail
    ELSE ScanString(s, i + 1, Append(acc, s[i]))

\* The digits of a number literal from position i: its value and its end.
RECURSIVE ScanNumber(_, _, _)
ScanNumber(s, i, acc) ==
    IF i <= Len(s) /\ s[i] \in DigitChars
    THEN ScanNumber(s, i + 1, 10 * acc + DigitValue(s[i]))
    ELSE [val |-> acc, next |-> i]

RECURSIVE ParseValue(_, _)
RECURSIVE ParseElements(_, _, _)
ParseElements(s, i, acc) ==
    LET v == ParseValue(s, i)
    IN  IF ~v.ok \/ v.next > Len(s) THEN ParseFail
        ELSE LET acc2 == Append(acc, v.val)
             IN  IF s[v.next] = "]"
                 THEN [ok |-> TRUE, val |-> PyList(acc2), next |-> v.next + 1]
                 ELSE IF s[v.next] = ","
                 THEN ParseElements(s, v.next + 1, acc2)
                 ELSE ParseFail

RECURSIVE ParseMembers(_, _, _)
ParseMembers(s, i, acc) ==
    IF i > Len(s) \/ s[i] # DQ THEN ParseFail
    ELSE LET k == ScanString(s, i + 1, <<>>)
         IN  IF ~k.ok \/ k.next > Len(s) \/ s[k.next] # ":" THEN ParseFail
             ELSE LET v == ParseValue(s, k.next + 1)
                  IN  IF ~v.ok \/ v.next > Len(s) THEN ParseFail
                      ELSE LET acc2 == DictSet(acc, k.val, v.val)
                           IN  IF s[v.next] = "}"
                               THEN [ok |-> TRUE, val |-> PyDict(acc2),
                                     next |-> v.next + 1]
                               ELSE IF s[v.next] = ","
                               THEN ParseMembers(s, v.next + 1, acc2)
                               ELSE ParseFail

ParseValue(s, i) ==
    IF i > Len(s) THEN ParseFail
    ELSE IF s[i] = DQ
         THEN LET r == ScanString(s, i + 1, <<>>)
              IN  IF r.ok THEN [ok |-> TRUE, val |-> PyStr(r.val), next |-> r.next]
                  ELSE ParseFail
    ELSE IF s[i] \in DigitChars
         THEN LET n == ScanNumber(s, i, 0)
              IN  IF s[i] = "0" /\ n.next > i + 1 THEN ParseFail
                  ELSE [ok |-> TRUE, val |-> PyInt(n.val), next |-> n.next]
    ELSE IF s[i] = "{"
         THEN IF i + 1 <= Len(s) /\ s[i + 1] = "}"
              THEN [ok |-> TRUE, val |-> PyDict(<<>>), next |-> i + 2]
              ELSE ParseMembers(s, i + 1, <<>>)
    ELSE IF s[i] = "["
         THEN IF i + 1 <= Len(s) /\ s[i + 1] = "]"
              THEN [ok |-> TRUE, val |-> PyList(<<>>), next |-> i + 2]
              ELSE ParseElements(s, i + 1, <<>>)
    ELSE ParseFail

\* json.loads(s): [ok |-> TRUE, val |-> value], or ok = FALSE for JSONDecodeError.
json_loads(s) ==
    LET r == ParseValue(s, 1)
    IN  IF r.ok /\ r.next = Len(s) + 1
        THEN [ok |-> TRUE, val |-> r.val]
        ELSE [ok |-> FALSE, val |-> PyInt(0)]

---------------------------------------------------------------------------
\* What a call does: it returns a value or raises an error.

Return(v) == [kind |-> "return", val |-> v, err |-> "none"]
Raise(e) == [kind |-> "raise", val |-> EmptyStr, err |-> e]
NotCalled == [kind |-> "none", val |-> EmptyStr, err |-> "none"]

---------------------------------------------------------------------------
\* The tools and the registry.

ContextProviders == {"hackernews_tool", "news_api_tool"}
Generators == {"startup_simulator", "serious_startup_simulator"}
PipelineTools == ContextProviders \cup Generators
\* The two other registered tools are named after their classes.
AllTools == PipelineTools \cup {"TextAnalyzerTool", "KeywordExtractorTool"}

Modes == {"silly", "serious"}
Tasks == {"generate a startup pitch", "generate a business plan"}

\* tool_registry.get_implementation(name): the class, or None when the name
\* is not registered.
get_implementation(registry, name) ==
    IF name \in registry THEN name ELSE "None"

\* The galileo_output a generator tool returns for the model's text, as the
\* JSON string execute returns.  The output record keeps the pitch, its
\* character count and the mode (the time stamp, the model name and the token
\* counts are left out: nothing reads them).
GeneratorOutput(tool, style, text) ==
    LET output == PyDict(<< <<PitchKey, PyStr(text)>>,
                            <<CharacterCountKey, PyInt(Len(text))>>,
                            <<ModeKey, PyStr(<<style>>)>> >>)
        galileo_output ==
            PyDict(<< <<ToolResultKey, PyStr(<<tool>>)>>,
                      <<FormattedOutputKey, PyStr(json_dumps(output))>>,
                      <<PitchKey, PyStr(text)>>,
                      <<MetadataKey, output>> >>)
    IN  PyStr(json_dumps(galileo_output))

\* str.strip(): the text without its leading and trailing white space.
RECURSIVE lstrip(_)
lstrip(s) == IF s # <<>> /\ Head(s) = " " THEN lstrip(Tail(s)) ELSE s

RECURSIVE rstrip(_)
rstrip(s) ==
    IF s # <<>> /\ s[Len(s)] = " " THEN rstrip(SubSeq(s, 1, Len(s) - 1)) ELSE s

strip(s) == rstrip(lstrip(s))

\* client.chat.completions.create: the request raises, or the response
\* carries a text.
LLMResponses(texts) == {Raise("OpenAIError")} \cup {Return(PyStr(x)) : x \in texts}

\* pitch = response.choices[0].message.content.strip()
GeneratorPitch(response) == PyStr(strip(response.val.s))

\* What both paths of a generator tool do with the response: the pitch is
\* the stripped text, and the tool returns the JSON string of its
\* galileo_output.
GeneratorResult(tool, style, response) ==
    IF response.kind = "raise" THEN response
    ELSE Return(GeneratorOutput(tool, style, GeneratorPitch(response).s))

\* Faulty variant of StartupSimulatorTool_execute_without_galileo: the
\* fallback keeps the white space around the model's text.
ExecuteWithoutGalileoUnstripped(response) ==
    IF response.kind = "raise" THEN response
    ELSE Return(GeneratorOutput("startup_simulator", "silly", response.val.s))

\* StartupSimulatorTool._execute_without_galileo
StartupSimulatorTool_execute_without_galileo(response) ==
    GeneratorResult("startup_simulator", "silly", response)

\* StartupSimulatorTool.execute: logger is whether self.galileo_logger is
\* set; sink_ok is whether the logger's calls return.
StartupSimulatorTool_execute(logger, sink_ok, response) ==
    IF ~logger THEN StartupSimulatorTool_execute_without_galileo(response)
    ELSE IF ~sink_ok THEN Raise("GalileoError")
    ELSE GeneratorResult("startup_simulator", "silly", response)

\* SeriousStartupSimulatorTool._execute_without_galileo
SeriousStartupSimulatorTool_execute_without_galileo(response) ==
    GeneratorResult("serious_startup_simulator", "serious", response)

\* SeriousStartupSimulatorTool.execute
SeriousStartupSimulatorTool_execute(logger, sink_ok, response) ==
    IF ~logger THEN SeriousStartupSimulatorTool_execute_without_galileo(response)
    ELSE IF ~sink_ok THEN Raise("GalileoError")
    ELSE GeneratorResult("serious_startup_simulator", "serious", response)

\* StartupSimulatorTool.execute as the agent's wrapper sees it: the model
\* call raises, or the tool returns the JSON string of its galileo_output.
StartupSimulatorOutcomes ==
    {StartupSimulatorTool_execute(l, TRUE, r) :
         l \in BOOLEAN, r \in LLMResponses(LLMTexts)}

\* SeriousStartupSimulatorTool.execute
SeriousStartupSimulatorOutcomes ==
    {SeriousStartupSimulatorTool_execute(l, TRUE, r) :
         l \in BOOLEAN, r \in LLMResponses(LLMTexts)}

\* Titles a feed may deliver.
FeedTitles == {<<>>, <<"x">>, <<"x", DQ>>}

\* The JSON string a context provider returns for the titles it fetched.
ContextOutput(tool, titles) ==
    PyStr(json_dumps(PyDict(<< <<ToolResultKey, PyStr(<<tool>>)>>,
                               <<FormattedOutputKey, PyStr(titles)>> >>)))

\* What a request of a context provider meets: it succeeds, the server
\* answers with an error status, the connection fails, or the payload does
\* not decode.
RequestStatuses == {"ok", "http_error", "network_error", "decode_error"}

\* The world of one call of a context provider: whether NEWS_API_KEY is set,
\* what the listing request (top stories, top headlines) and the request
\* for a story meet, and the titles the feed holds (none: an empty feed).
Environments ==
    [api_key : BOOLEAN, listing : RequestStatuses, item : RequestStatuses,
     titles : FeedTitles]

\* A tool's session: "none" before the session property creates it,
\* "open" after, "closed" after close().
SessionStates == {"none", "open", "closed"}

\* What a call leaves behind: its outcome and the state of the session.
Call(outcome, session) == [outcome |-> outcome, session |-> session]

\* HackerNewsTool.get_top_stories: the ids of the feed's stories; any
\* failure is caught and gives [].
HackerNewsTool_get_top_stories(env) ==
    IF env.listing = "ok" /\ env.titles # <<>> THEN <<1>> ELSE <<>>

\* HackerNewsTool.get_story: the story, or None on any failure.
HackerNewsTool_get_story(env) ==
    IF env.item = "ok" THEN [found |-> TRUE, title |-> env.titles]
    ELSE [found |-> FALSE, title |-> <<>>]

\* HackerNewsTool._execute_without_galileo: the session lives in an async
\* with; a listing that fails raises, a story answered with an error status
\* is skipped, a story request that fails otherwise raises.
HackerNewsTool_execute_without_galileo(env) ==
    Call(IF env.listing # "ok" THEN Raise("HackerNewsError")
         ELSE IF env.titles = <<>> \/ env.item = "http_error"
         THEN Return(ContextOutput("hackernews_tool", <<>>))
         ELSE IF env.item # "ok" THEN Raise("HackerNewsError")
         ELSE Return(ContextOutput("hackernews_tool", env.titles)),
         "closed")

\* HackerNewsTool.execute on a fresh instance: logger is whether
\* self.galileo_logger is set.  The logged path fetches through
\* get_top_stories and get_story, which create self._session; nothing on
\* that path closes it.
HackerNewsTool_execute(logger, sink_ok, env) ==
    IF ~logger THEN HackerNewsTool_execute_without_galileo(env)
    ELSE IF ~sink_ok THEN Call(Raise("GalileoError"), "none")
    ELSE LET story_ids == HackerNewsTool_get_top_stories(env)
             story == IF story_ids # <<>> THEN HackerNewsTool_get_story(env)
                      ELSE [found |-> FALSE, title |-> <<>>]
         IN  Call(Return(ContextOutput("hackernews_tool",
                                       IF story.found THEN story.title ELSE <<>>)),
                  "open")

\* NewsAPITool.get_top_headlines: the titles; any failure is caught and
\* gives [].
NewsAPITool_get_top_headlines(env) ==
    IF env.listing = "ok" THEN env.titles ELSE <<>>

\* NewsAPITool.execute: the headlines, and the session closed in finally.
NewsAPITool_execute(env) ==
    Call(Return(ContextOutput("news_api_tool", NewsAPITool_get_top_headlines(env))),
         "closed")

\* news_tool_class() and execute: the constructor raises ValueError when
\* NEWS_API_KEY is not set.
NewsAPITool_new_execute(env) ==
    IF ~env.api_key THEN Call(Raise("ValueError"), "none")
    ELSE NewsAPITool_execute(env)

\* HackerNewsTool() and its execute as the agent's wrapper sees them.
HackerNewsOutcomes ==
    {HackerNewsTool_execute(l, TRUE, env).outcome :
         l \in BOOLEAN, env \in Environments}

\* NewsAPITool() and its execute as the agent's wrapper sees them.
NewsAPIOutcomes == {NewsAPITool_new_execute(env).outcome : env \in Environments}

---------------------------------------------------------------------------
\* SimpleAgent._format_result

\* Faulty variant of FormatEntry: the pitch is looked up under the wrong key.
FormatEntryWrongKey(result) ==
    LET finish(pitch) ==
            IF pitch.t = "int" THEN Raise("TypeError") ELSE Return(pitch)
    IN  IF result.t = "str"
        THEN LET parsed == json_loads(result.s)
             IN  IF ~parsed.ok
                 THEN Return(result)
                 ELSE IF parsed.val.t # "dict"
                 THEN Raise("AttributeError")
                 ELSE finish(DictGet(parsed.val.m, ToolResultKey, EmptyStr))
        ELSE IF result.t = "dict"
        THEN finish(DictGet(result.m, ToolResultKey, EmptyStr))
        ELSE Raise("AttributeError")

\* Faulty variant of FormatEntry: the JSONDecodeError is not caught.
FormatEntryDecodeErrorRaises(result) ==
    LET finish(pitch) ==
            IF pitch.t = "int" THEN Raise("TypeError") ELSE Return(pitch)
    IN  IF result.t = "str"
        THEN LET parsed == json_loads(result.s)
             IN  IF ~parsed.ok
                 THEN Raise("JSONDecodeError")
                 ELSE IF parsed.val.t # "dict"
                 THEN Raise("AttributeError")
                 ELSE finish(DictGet(parsed.val.m, PitchKey, EmptyStr))
        ELSE IF result.t = "dict"
        THEN finish(DictGet(result.m, PitchKey, EmptyStr))
        ELSE Raise("AttributeError")

\* The body of the inner try for one generator entry: decode, extract, return.
FormatEntry(result) ==
    LET finish(pitch) ==
            \* len(pitch) raises TypeError on an int
            IF pitch.t = "int" THEN Raise("TypeError") ELSE Return(pitch)
    IN  IF result.t = "str"
        THEN LET parsed == json_loads(result.s)
             IN  IF ~parsed.ok
                 THEN Return(result)                      \* str(result)
                 ELSE IF parsed.val.t # "dict"
                 THEN Raise("AttributeError")             \* no .get
                 ELSE finish(DictGet(parsed.val.m, PitchKey, EmptyStr))
        ELSE IF result.t = "dict"
        THEN finish(DictGet(result.m, PitchKey, EmptyStr))
        ELSE Raise("AttributeError")

\* The first entry of results with the given tool name, 0 when there is none.
FirstEntry(results, name) ==
    IF \E i \in 1..Len(results) : results[i][1] = name
    THEN CHOOSE i \in 1..Len(results) :
             /\ results[i][1] = name
             /\ \A j \in 1..(i - 1) : results[j][1] # name
    ELSE 0

\* Faulty variant of _format_result: the task picks the generator, a
\* business plan being looked for under serious_startup_simulator only.
FormatResultReadsTask(task, results, galileo_ok) ==
    IF ~galileo_ok THEN Raise("GalileoError")
    ELSE LET silly == FirstEntry(results, "startup_simulator")
             serious == FirstEntry(results, "serious_startup_simulator")
         IN  IF silly # 0 /\ task # "generate a business plan"
             THEN FormatEntry(results[silly][2])
             ELSE IF serious # 0 THEN FormatEntry(results[serious][2])
             ELSE Return(NoPitchSentinel)

\* Faulty variant of _format_result: a list without a generator entry yields
\* the empty string.
FormatResultEmptyWhenNoEntry(task, results, galileo_ok) ==
    IF ~galileo_ok THEN Raise("GalileoError")
    ELSE LET silly == FirstEntry(results, "startup_simulator")
             serious == FirstEntry(results, "serious_startup_simulator")
         IN  IF silly # 0 THEN FormatEntry(results[silly][2])
             ELSE IF serious # 0 THEN FormatEntry(results[serious][2])
             ELSE Return(EmptyStr)

\* The first loop looks for a startup_simulator entry, the second for a
\* serious_startup_simulator entry; self.mode is not read.
_format_result(task, results, galileo_ok) ==
    IF ~galileo_ok THEN Raise("GalileoError")
    ELSE LET silly == FirstEntry(results, "startup_simulator")
             serious == FirstEntry(results, "serious_startup_simulator")
         IN  IF silly # 0 THEN FormatEntry(results[silly][2])
             ELSE IF serious # 0 THEN FormatEntry(results[serious][2])
             ELSE Return(NoPitchSentinel)

---------------------------------------------------------------------------
\* The _execute_* wrappers: outcome is what the tool's constructor and
\* execute do when the tool is registered.

\* Faulty variant of _execute_hackernews_tool: a tool that is not registered
\* is an error.
HackerNewsNotFoundRaises(registry, galileo_ok, outcome) ==
    IF ~galileo_ok THEN Raise("GalileoError")
    ELSE IF get_implementation(registry, "hackernews_tool") = "None"
    THEN Raise("ToolNotFound")
    ELSE outcome

_execute_hackernews_tool(registry, galileo_ok, outcome) ==
    IF ~galileo_ok THEN Raise("GalileoError")
    ELSE IF get_implementation(registry, "hackernews_tool") = "None"
    THEN Return(EmptyStr)
    ELSE outcome

_execute_news_api_tool(registry, galileo_ok, outcome) ==
    IF ~galileo_ok THEN Raise("GalileoError")
    ELSE IF get_implementation(registry, "news_api_tool") = "None"
    THEN Return(EmptyStr)
    ELSE outcome

\* Faulty variant of _execute_startup_simulator: the wrapper swallows the
\* tool's error and returns "".
StartupSimulatorErrorSwallowed(registry, galileo_ok, outcome) ==
    IF ~galileo_ok THEN Raise("GalileoError")
    ELSE IF get_implementation(registry, "startup_simulator") = "None"
    THEN Return(EmptyStr)
    ELSE IF outcome.kind = "raise" THEN Return(EmptyStr)
    ELSE outcome

_execute_startup_simulator(registry, galileo_ok, outcome) ==
    IF ~galileo_ok THEN Raise("GalileoError")
    ELSE IF get_implementation(registry, "startup_simulator") = "None"
    THEN Return(EmptyStr)
    ELSE outcome

_execute_serious_startup_simulator(registry, galileo_ok, outcome) ==
    IF ~galileo_ok THEN Raise("GalileoError")
    ELSE IF get_implementation(registry, "serious_startup_simulator") = "None"
    THEN Return(EmptyStr)
    ELSE outcome

---------------------------------------------------------------------------
\* The traces: each of run, the wrappers and _format_result creates its own
\* GalileoLogger, starts one trace on it and concludes it.

\* galileo_logger.start_trace(name)
StartTrace(name) == [op |-> "start_trace", trace |-> name, error |-> FALSE]

\* galileo_logger.conclude(output=..., duration_ns=0, error=error)
Conclude(name, error) == [op |-> "conclude", trace |-> name, error |-> error]

\* The trace of run: f"Agent Workflow - {self.mode} mode - {self.agent_id}"
RunTrace == "Agent Workflow"

\* The start_trace and conclude calls of an _execute_* wrapper. The
\* constructor of GalileoLogger comes first: when it raises nothing is called.
WrapperTrace(name, tool, registry, galileo_ok, outcome) ==
    IF ~galileo_ok THEN <<>>
    ELSE IF get_implementation(registry, tool) = "None"
    THEN <<StartTrace(name), Conclude(name, TRUE)>>       \* tool not found
    ELSE IF outcome.kind = "raise"
    THEN <<StartTrace(name), Conclude(name, TRUE)>>       \* except
    ELSE <<StartTrace(name), Conclude(name, FALSE)>>

\* The conclude calls of _format_result for one generator entry.
FormatEntryConcludes(result) ==
    IF result.t = "str" /\ ~json_loads(result.s).ok
    THEN <<Conclude("format_result", TRUE)>>              \* decode fallback
    ELSE IF FormatEntry(result).kind = "raise"
    THEN <<Conclude("format_result", TRUE)>>              \* outer except
    ELSE <<Conclude("format_result", FALSE)>>

\* The start_trace and conclude calls of _format_result.
FormatTrace(results, galileo_ok) ==
    IF ~galileo_ok THEN <<>>
    ELSE LET silly == FirstEntry(results, "startup_simulator")
             serious == FirstEntry(results, "serious_startup_simulator")
         IN  <<StartTrace("format_result")>> \o
             (IF silly # 0 THEN FormatEntryConcludes(results[silly][2])
              ELSE IF serious # 0 THEN FormatEntryConcludes(results[serious][2])
              ELSE <<Conclude("format_result", FALSE)>>)

\* run's except: logger.conclude(output=str(e), duration_ns=0, error=True)
RunExcept(outcome) ==
    IF outcome.kind = "raise" THEN <<Conclude(RunTrace, TRUE)>> ELSE <<>>

---------------------------------------------------------------------------
\* The state: one agent, its runs one after the other, and one direct call
\* of _format_result.

VARIABLES
    mode,             \* self.mode
    tool_registry,    \* names registered in self.tool_registry
    galileo_ok,       \* whether GalileoLogger calls return (FALSE: they raise)
    pc,               \* where the current run is
    task,             \* the task argument of the current run
    results,          \* run's local list of (tool_name, raw_output)
    context,          \* run's local news_context / hn_context
    formatted_result, \* run's local formatted_result
    run_outcome,      \* what run did: returned its envelope, or raised
    tool_calls,       \* history: the tool invocations of the current run
    phases,           \* history: the phases the current run went through
    format_calls,     \* history: calls of _format_result in the current run
    agent_done,       \* history: results passed to logger.on_agent_done
    runs,             \* number of runs started on this agent
    prev_context,     \* history: the context of the run before the current one
    prev_run,         \* history: what the run before the current one did
    returned,         \* the string the current run returned
    trace_log,        \* history: start_trace and conclude calls of the current run
    fmt_results,      \* argument of the direct calls of _format_result
    fmt_outcome,      \* what the direct call of _format_result did
    fmt_again,        \* what a second call on the same list did
    gen_tool,         \* the generator tool called directly
    gen_logger,       \* whether that tool's self.galileo_logger is set
    gen_response,     \* what the language model does on that call
    gen_pitch,        \* output["pitch"] of that call
    gen_outcome,      \* what the tool's execute did
    ctx_tool,         \* the context provider called directly
    ctx_logger,       \* whether that tool's self.galileo_logger is set
    ctx_env,          \* what the tool's requests meet
    ctx_session,      \* the session the tool created
    ctx_outcome,      \* what the tool's execute did
    _galileo_logger,  \* the module's global: 0 for None, else the logger object
    req_mode,         \* per request: the mode of its agent
    req_pc,           \* per request: where its run is
    req_tool,         \* per request: the tool its run is at
    tool_logger,      \* per request: self.galileo_logger of that tool instance
    logger_trace,     \* per logger object: the request whose trace is open on it
    global_access,    \* history: the requests that read and wrote _galileo_logger
    logger_access,    \* history: per logger object, the requests that wrote it
    web_body,         \* the body of the request generate_startup is handling
    web_agent,        \* whether the handler constructed a SimpleAgent
    web_run,          \* what agent.run did for that request
    web_formatted,    \* history: what _format_result did in that run
    web_tools,        \* history: the tools that run invoked, in order
    web_response,     \* the response generate_startup returned
    logger_calls,     \* history: the tools constructed and the logger each was given
    wrapper,          \* the GalileoLoggerWrapper object: _logger, _is_initialized
    wrapper_calls     \* history: the calls made on the wrapper and what each did

vars == <<mode, tool_registry, galileo_ok, pc, task, results, context,
          formatted_result, run_outcome, tool_calls, phases, format_calls,
          agent_done, runs, prev_context, prev_run, returned, trace_log,
          fmt_results, fmt_outcome, fmt_again,
          gen_tool, gen_logger, gen_response, gen_pitch, gen_outcome,
          ctx_tool, ctx_logger, ctx_env, ctx_session, ctx_outcome,
          _galileo_logger, req_mode, req_pc, req_tool, tool_logger, logger_trace,
          global_access, logger_access,
          web_body, web_agent, web_run, web_formatted, web_tools, web_response,
          logger_calls, wrapper, wrapper_calls>>

fmtVars == <<fmt_results, fmt_outcome, fmt_again>>

genVars == <<gen_tool, gen_logger, gen_response, gen_pitch, gen_outcome>>

ctxVars == <<ctx_tool, ctx_logger, ctx_env, ctx_session, ctx_outcome>>

reqVars == <<_galileo_logger, req_mode, req_pc, req_tool, tool_logger,
             logger_trace, global_access, logger_access>>

webVars == <<web_body, web_agent, web_run, web_formatted, web_tools, web_response>>

wrapVars == <<wrapper, wrapper_calls>>

toolVars == <<genVars, ctxVars, reqVars, webVars, logger_calls, wrapVars>>

runVars == <<pc, task, results, context, formatted_result, run_outcome,
             tool_calls, phases, format_calls, agent_done, runs, prev_context,
             prev_run, returned, trace_log>>

ContextProviderOf(m) == IF m = "serious" THEN "news_api_tool" ELSE "hackernews_tool"
GeneratorOf(m) == IF m = "serious" THEN "serious_startup_simulator" ELSE "startup_simulator"

\* The names run gives its results entries.
ContextLabelOf(m) == IF m = "serious" THEN "news_api" ELSE "hackernews"

\* The trace an _execute_* wrapper starts for its tool.
WrapperOf(tool) ==
    IF tool = "hackernews_tool" THEN "execute_hackernews_tool"
    ELSE IF tool = "news_api_tool" THEN "execute_news_api_tool"
    ELSE IF tool = "startup_simulator" THEN "execute_startup_simulator"
    ELSE "execute_serious_startup_simulator"

\* workflow_result, which run returns as json.dumps(workflow_result).
WorkflowResult(m, t, formatted, res) ==
    [mode |-> m, task |-> t, final_output |-> formatted,
     tools_used |-> [i \in 1..Len(res) |-> res[i][1]],
     execution_status |-> "success"]

WorkflowModeKey == <<"mode">>
FinalOutputKey == <<"final_output">>
ToolsUsedKey == <<"tools_used">>
ExecutionStatusKey == <<"execution_status">>

\* return json.dumps(workflow_result, indent=2): the string run returns (the
\* time stamp is left out, and so is the white space of the indentation).
json_dumps_workflow_result(w) ==
    PyStr(json_dumps(PyDict(<<
        <<<<"agent_id">>, PyStr(<<"startup-agent-", w.mode>>)>>,
        <<WorkflowModeKey, PyStr(<<w.mode>>)>>,
        <<<<"task">>, PyStr(<<w.task>>)>>,
        <<FinalOutputKey, w.final_output>>,
        <<ToolsUsedKey, PyList([i \in 1..Len(w.tools_used) |->
                                   PyStr(<<w.tools_used[i]>>)])>>,
        <<ExecutionStatusKey, PyStr(<<w.execution_status>>)>> >>)))

\* The registry after __init__: _register_tools registers every tool; a
\* deployment that registers fewer (an overridden _register_tools, a tool
\* that is not installed) leaves pipeline tools out.
Registries == {AllTools \ missing : missing \in SUBSET PipelineTools}

\* No generator tool is being called directly.
GeneratorIdle ==
    /\ gen_tool = "none"
    /\ gen_logger = FALSE
    /\ gen_response = NotCalled
    /\ gen_pitch = EmptyStr
    /\ gen_outcome = NotCalled

\* No context provider is being called directly.
ContextIdle ==
    /\ ctx_tool = "none"
    /\ ctx_logger = FALSE
    /\ ctx_env = [api_key |-> TRUE, listing |-> "ok", item |-> "ok", titles |-> <<>>]
    /\ ctx_session = "none"
    /\ ctx_outcome = NotCalled

\* The requests the web server is handling at once; a logger object is
\* named after the request that created it.
Requests == {1, 2}

\* No request has arrived, and the module's global is None.
RequestsIdle ==
    /\ _galileo_logger = 0
    /\ req_mode = [r \in Requests |-> "silly"]
    /\ req_pc = [r \in Requests |-> "idle"]
    /\ req_tool = [r \in Requests |-> "context"]
    /\ tool_logger = [r \in Requests |-> 0]
    /\ logger_trace = [l \in Requests |-> 0]
    /\ global_access = [readers |-> {}, writers |-> {}]
    /\ logger_access = [l \in Requests |-> {}]

\* A field of the request's JSON object: not there, there with a value
\* that is not a string (null, a number), or a string.
Absent == [kind |-> "absent", s |-> <<>>]
NotAString == [kind |-> "other", s |-> <<>>]
Str(s) == [kind |-> "str", s |-> s]

\* jsonify({key: value}), status
Response(status, key, value) == [status |-> status, key |-> key, value |-> value]
NoResponse == Response(0, "none", EmptyStr)

\* The handler has had no request.
WebIdle ==
    /\ web_body = [json |-> FALSE, industry |-> Absent, audience |-> Absent,
                   randomWord |-> Absent, mode |-> Absent]
    /\ web_agent = FALSE
    /\ web_run = NotCalled
    /\ web_formatted = NotCalled
    /\ web_tools = <<>>
    /\ web_response = NoResponse

\* GalileoLoggerWrapper(...) has not been called.
NoWrapper == [constructed |-> FALSE, _logger |-> FALSE, _is_initialized |-> FALSE]

WrapperIdle == wrapper = NoWrapper /\ wrapper_calls = <<>>

\* No tool is being called directly and no request is being handled.
ToolsIdle ==
    /\ GeneratorIdle /\ ContextIdle /\ RequestsIdle /\ WebIdle
    /\ logger_calls = <<>>
    /\ WrapperIdle

\* No run is remembered, and none will be.
NoHistory == [on |-> FALSE, n |-> 0, task |-> "none", tool_calls |-> <<>>,
              run_outcome |-> NotCalled]

\* What RunStart remembers of the run that ended, when runs are compared.
Remembered ==
    [on |-> TRUE, n |-> runs, task |-> task, tool_calls |-> tool_calls,
     run_outcome |-> run_outcome]

InitRun ==
    /\ mode \in Modes
    /\ tool_registry \in Registries
    /\ pc = "IDLE"
    /\ task = "none"
    /\ results = <<>>
    /\ context = EmptyStr
    /\ formatted_result = EmptyStr
    /\ run_outcome = NotCalled
    /\ tool_calls = <<>>
    /\ phases = <<>>
    /\ format_calls = 0
    /\ agent_done = <<>>
    /\ runs = 0
    /\ prev_context = EmptyStr
    /\ returned = EmptyStr
    /\ trace_log = <<>>

InitAgent ==
    /\ InitRun
    /\ prev_run = NoHistory

Init ==
    /\ InitAgent
    /\ galileo_ok = TRUE
    /\ fmt_results = <<>>
    /\ fmt_outcome = NotCalled
    /\ fmt_again = NotCalled
    /\ ToolsIdle

\* run's except and finally: conclude the trace with the error and raise.
RunRaises(e) ==
    /\ pc' = "FAILED"
    /\ phases' = Append(phases, "FAILED")
    /\ run_outcome' = Raise(e)

\* Faulty variant of ModeOfRun: run takes the mode from the task.
ModeFromTask(t) == IF t = "generate a business plan" THEN "serious" ELSE "silly"

\* The mode a run branches on: self.mode as __init__ assigned it; run stores
\* task_parameters and assigns nothing else of the agent.
ModeOfRun(t) == mode

\* Faulty variant of RegistryAfterLookup: a name that is not registered is
\* registered by the lookup.
LookupRegistersName(registry, name) == registry \cup {name}

\* The registry after tool_registry.get_implementation(name): a lookup
\* registers nothing and removes nothing.
RegistryAfterLookup(registry, name) == registry

\* Faulty variant of NewResults: the list of the run before is kept.
ResultsCarriedOver == results

\* results = []
NewResults == <<>>

\* run up to the first tool: store the parameters, create the Galileo logger,
\* start the trace, add the start span, results = [].
RunStart ==
    /\ pc \in {"IDLE", "DONE", "FAILED"}
    /\ runs < MaxRuns
    /\ runs' = runs + 1
    /\ \E t \in Tasks : task' = t
    /\ results' = NewResults
    /\ prev_context' = context
    /\ prev_run' = IF prev_run.on THEN Remembered ELSE prev_run
    /\ context' = EmptyStr
    /\ formatted_result' = EmptyStr
    /\ tool_calls' = <<>>
    /\ format_calls' = 0
    /\ agent_done' = <<>>
    /\ returned' = EmptyStr
    /\ IF galileo_ok
       THEN /\ pc' = "INIT"
            /\ phases' = <<"INIT">>
            /\ run_outcome' = NotCalled
            /\ trace_log' = <<StartTrace(RunTrace)>>
       ELSE /\ pc' = "FAILED"
            /\ phases' = <<"INIT", "FAILED">>
            /\ run_outcome' = Raise("GalileoError")
            /\ trace_log' = <<>>
    /\ mode' = ModeOfRun(task')
    /\ UNCHANGED <<tool_registry, galileo_ok, fmtVars, toolVars>>

\* Step 1: the context provider of the mode, through its wrapper.
ContextPhase ==
    /\ pc = "INIT"
    /\ LET tool == ContextProviderOf(mode)
           found == get_implementation(tool_registry, tool) # "None"
       IN  \E o \in (IF mode = "serious" THEN NewsAPIOutcomes ELSE HackerNewsOutcomes) :
             LET r == IF mode = "serious"
                      THEN _execute_news_api_tool(tool_registry, galileo_ok, o)
                      ELSE _execute_hackernews_tool(tool_registry, galileo_ok, o)
             IN  /\ tool_calls' = IF galileo_ok /\ found
                                  THEN Append(tool_calls,
                                              [tool |-> tool, arg |-> EmptyStr,
                                               outcome |-> o.kind, err |-> o.err,
                                               val |-> o.val])
                                  ELSE tool_calls
                 /\ trace_log' = trace_log
                                  \o WrapperTrace(WrapperOf(tool), tool, tool_registry,
                                                  galileo_ok, o)
                                  \o RunExcept(r)
                 /\ IF r.kind = "raise"
                    THEN /\ RunRaises(r.err)
                         /\ UNCHANGED <<results, context>>
                    ELSE /\ context' = r.val
                         /\ results' = Append(results, <<ContextLabelOf(mode), r.val>>)
                         /\ pc' = IF found THEN "CONTEXT_FETCHED" ELSE "DEGRADED"
                         /\ phases' = Append(phases, pc')
                         /\ UNCHANGED run_outcome
    /\ tool_registry' = RegistryAfterLookup(tool_registry, ContextProviderOf(mode))
    /\ UNCHANGED <<mode, galileo_ok, task, formatted_result,
                   format_calls, agent_done, runs, prev_context, prev_run,
                   returned, fmtVars, toolVars>>

\* Faulty variant of GeneratorArgument: the generator is handed the context
\* of the run before.
StaleGeneratorArgument == prev_context

\* news_context=news_context / hn_context=hn_context: the context the
\* generator is invoked with is the local the context phase assigned.
GeneratorArgument == context

\* Step 2: the generator of the mode, through its wrapper, with the context.
GeneratePhase ==
    /\ pc \in {"CONTEXT_FETCHED", "DEGRADED"}
    /\ LET tool == GeneratorOf(mode)
           found == get_implementation(tool_registry, tool) # "None"
       IN  \E o \in (IF mode = "serious" THEN SeriousStartupSimulatorOutcomes
                                         ELSE StartupSimulatorOutcomes) :
             LET r == IF mode = "serious"
                      THEN _execute_serious_startup_simulator(tool_registry, galileo_ok, o)
                      ELSE _execute_startup_simulator(tool_registry, galileo_ok, o)
             IN  /\ tool_calls' = IF galileo_ok /\ found
                                  THEN Append(tool_calls,
                                              [tool |-> tool, arg |-> GeneratorArgument,
                                               outcome |-> o.kind, err |-> o.err,
                                               val |-> o.val])
                                  ELSE tool_calls
                 /\ trace_log' = trace_log
                                  \o WrapperTrace(WrapperOf(tool), tool, tool_registry,
                                                  galileo_ok, o)
                                  \o RunExcept(r)
                 /\ IF r.kind = "raise"
                    THEN /\ RunRaises(r.err)
                         /\ UNCHANGED results
                    ELSE /\ results' = Append(results, <<tool, r.val>>)
                         /\ pc' = "GENERATED"
                         /\ phases' = Append(phases, "GENERATED")
                         /\ UNCHANGED run_outcome
    /\ tool_registry' = RegistryAfterLookup(tool_registry, GeneratorOf(mode))
    /\ UNCHANGED <<mode, galileo_ok, task, context, formatted_result,
                   format_calls, agent_done, runs, prev_context, prev_run,
                   returned, fmtVars, toolVars>>

\* Step 3: formatted_result = await self._format_result(task, results)
FormatPhase ==
    /\ pc = "GENERATED"
    /\ format_calls' = format_calls + 1
    /\ LET r == _format_result(task, results, galileo_ok)
       IN  /\ trace_log' = trace_log \o FormatTrace(results, galileo_ok) \o RunExcept(r)
           /\ IF r.kind = "raise"
              THEN /\ RunRaises(r.err)
                   /\ UNCHANGED formatted_result
              ELSE /\ formatted_result' = r.val
                   /\ pc' = "FORMATTED"
                   /\ phases' = Append(phases, "FORMATTED")
                   /\ UNCHANGED run_outcome
    /\ UNCHANGED <<mode, tool_registry, galileo_ok, task, results, context,
                   tool_calls, agent_done, runs, prev_context, prev_run,
                   returned, fmtVars, toolVars>>

\* Faulty variant of AgentDoneResult: on_agent_done is given the generator's
\* raw output.
AgentDoneRawOutput == results[Len(results)][2]

\* The result argument of self.logger.on_agent_done(formatted_result, ...)
AgentDoneResult == formatted_result

\* The rest of run: completion span, conclude, on_agent_done, return.
Finish ==
    /\ pc = "FORMATTED"
    /\ IF galileo_ok
       THEN /\ agent_done' = Append(agent_done, AgentDoneResult)
            /\ run_outcome' = Return(WorkflowResult(mode, task, formatted_result, results))
            /\ returned' = json_dumps_workflow_result(run_outcome'.val)
            /\ pc' = "DONE"
            /\ phases' = Append(phases, "DONE")
            /\ trace_log' = Append(trace_log, Conclude(RunTrace, FALSE))
       ELSE /\ RunRaises("GalileoError")
            /\ trace_log' = Append(trace_log, Conclude(RunTrace, TRUE))
            /\ UNCHANGED <<agent_done, returned>>
    /\ UNCHANGED <<mode, tool_registry, galileo_ok, task, results, context,
                   formatted_result, tool_calls, format_calls, runs,
                   prev_context, prev_run,
                   fmtVars, toolVars>>

Next == RunStart \/ ContextPhase \/ GeneratePhase \/ FormatPhase \/ Finish

Spec == Init /\ [][Next]_vars

---------------------------------------------------------------------------
\* The runs when self.logger.on_agent_done may raise: ConsoleAgentLogger
\* prints the result through console.print, which raises on a result it
\* cannot render.

\* The rest of run when on_agent_done raises: completion span, conclude,
\* on_agent_done raising, then the except: conclude again, and raise.
FinishDoneRaises ==
    /\ pc = "FORMATTED"
    /\ galileo_ok
    /\ agent_done' = Append(agent_done, AgentDoneResult)
    /\ trace_log' = trace_log \o <<Conclude(RunTrace, FALSE)>>
                              \o RunExcept(Raise("MarkupError"))
    /\ RunRaises("MarkupError")
    /\ UNCHANGED <<mode, tool_registry, galileo_ok, task, results, context,
                   formatted_result, tool_calls, format_calls, runs,
                   prev_context, prev_run, returned,
                   fmtVars, toolVars>>

NextTraces == Next \/ FinishDoneRaises

SpecTraces == Init /\ [][NextTraces]_vars

---------------------------------------------------------------------------
\* The runs when the observability sink may be down: every GalileoLogger
\* call (constructor, start_trace, add_llm_span, conclude) raises while
\* galileo_ok is FALSE.

SinkChange ==
    /\ galileo_ok' = ~galileo_ok
    /\ UNCHANGED <<mode, tool_registry, runVars, fmtVars, toolVars>>

InitSink ==
    /\ InitAgent
    /\ galileo_ok \in BOOLEAN
    /\ fmt_results = <<>>
    /\ fmt_outcome = NotCalled
    /\ fmt_again = NotCalled
    /\ ToolsIdle

NextSink == Next \/ SinkChange

SpecSink == InitSink /\ [][NextSink]_vars

---------------------------------------------------------------------------
\* Two runs compared: RunStart remembers the run that ended, and the tools
\* give the next run the responses they gave the remembered one, call for
\* call (a call the remembered run did not make gets any response).

\* The response a tool call got.
ResponseOf(call) == [outcome |-> call.outcome, err |-> call.err, val |-> call.val]

\* The calls of the current run got the responses the calls of the
\* remembered run got, as far as both runs made calls.
SameResponses ==
    \A i \in 1..Len(tool_calls) :
        i <= Len(prev_run.tool_calls) =>
            ResponseOf(tool_calls[i]) = ResponseOf(prev_run.tool_calls[i])

InitTwoTasks ==
    /\ InitRun
    /\ prev_run = [NoHistory EXCEPT !.on = TRUE]
    /\ galileo_ok = TRUE
    /\ fmt_results = <<>>
    /\ fmt_outcome = NotCalled
    /\ fmt_again = NotCalled
    /\ ToolsIdle

ContextPhaseSameResponse == ContextPhase /\ SameResponses'

GeneratePhaseSameResponse == GeneratePhase /\ SameResponses'

NextTwoTasks ==
    \/ RunStart
    \/ ContextPhaseSameResponse
    \/ GeneratePhaseSameResponse
    \/ FormatPhase
    \/ Finish

SpecTwoTasks == InitTwoTasks /\ [][NextTwoTasks]_vars

---------------------------------------------------------------------------
\* _format_result called directly on a results list.

\* Characters of the raw strings a tool may hand back.
RawChars == {"{", "}", DQ, "1", "x"}

\* Records (and decoded objects) that hold the pitch x.
ObjectsWithPitch(x) ==
    { PyDict(<< <<PitchKey, PyStr(x)>> >>),
      PyDict(<< <<ToolResultKey, PyStr(<<"startup_simulator">>)>>,
                <<PitchKey, PyStr(x)>> >>),
      PyDict(<< <<PitchKey, PyStr(x)>>,
                <<MetadataKey, PyDict(<< <<CharacterCountKey, PyInt(Len(x))>> >>)>> >>) }

\* Records without a pitch, or with a pitch that is no string.
OtherObjects ==
    { PyDict(<<>>),
      PyDict(<< <<ToolResultKey, PyStr(<<"startup_simulator">>)>> >>),
      PyDict(<< <<PitchKey, PyInt(12)>> >>),
      PyDict(<< <<PitchKey, PyDict(<<>>)>> >>) }

Objects == OtherObjects \cup UNION {ObjectsWithPitch(x) : x \in LLMTexts}

\* A payload cut short: the encoding without its last character.
Truncated(s) == SubSeq(s, 1, Len(s) - 1)

RawOutputs ==
    Objects
        \cup {PyStr(json_dumps(o)) : o \in Objects}
        \cup {PyStr(Truncated(json_dumps(o))) : o \in Objects}
        \cup {PyStr(json_dumps(PyStr(x))) : x \in LLMTexts}
        \cup {PyStr(s) : s \in StringsUpTo(RawChars, MaxRawLen)}
        \cup {PyInt(7)}

\* Payloads of two generator entries in one list, with pitches that differ.
PitchPayloads ==
    {PyStr(json_dumps(PyDict(<< <<PitchKey, PyStr(x)>> >>))) : x \in {<<"x">>, <<DQ>>}}

\* Lists with two generator entries: of one generator, or of both, in
\* either order.
TwoGeneratorLists ==
    { << <<g1, r1>>, <<g2, r2>> >> :
          g1 \in Generators, g2 \in Generators,
          r1 \in PitchPayloads, r2 \in PitchPayloads }

\* Lists without a generator entry.
NoGeneratorLists ==
    {<<>>, << <<"hackernews", EmptyStr>> >>}
        \cup { << <<ContextLabelOf(m), ContextOutput(ContextProviderOf(m), x)>> >> :
                  m \in Modes, x \in FeedTitles }

FormatInputs ==
    NoGeneratorLists
        \cup { << <<g, raw>> >> : g \in Generators, raw \in RawOutputs }
        \cup { << <<ContextLabelOf(m), ContextOutput(ContextProviderOf(m), <<"x">>)>>,
                  <<GeneratorOf(m), raw>> >> : m \in Modes, raw \in RawOutputs }
        \cup TwoGeneratorLists

InitFormat ==
    /\ InitAgent
    /\ tool_registry = AllTools
    /\ galileo_ok = TRUE
    /\ fmt_results \in FormatInputs
    /\ fmt_outcome = NotCalled
    /\ fmt_again = NotCalled
    /\ ToolsIdle

FormatCall ==
    /\ fmt_outcome = NotCalled
    /\ \E t \in Tasks : fmt_outcome' = _format_result(t, fmt_results, galileo_ok)
    /\ UNCHANGED <<mode, tool_registry, galileo_ok, runVars, fmt_results, fmt_again, toolVars>>

NextFormat == FormatCall

SpecFormat == InitFormat /\ [][NextFormat]_vars

---------------------------------------------------------------------------
\* _format_result called twice on the same results list, with task
\* arguments of the caller's choice, while the observability sink may go
\* down and come back between the calls.

FormatCallAgain ==
    /\ fmt_outcome # NotCalled
    /\ fmt_again = NotCalled
    /\ \E t \in Tasks : fmt_again' = _format_result(t, fmt_results, galileo_ok)
    /\ UNCHANGED <<mode, tool_registry, galileo_ok, runVars, fmt_results, fmt_outcome, toolVars>>

InitFormatTwice ==
    /\ InitAgent
    /\ tool_registry = AllTools
    /\ galileo_ok \in BOOLEAN
    /\ fmt_results \in FormatInputs
    /\ fmt_outcome = NotCalled
    /\ fmt_again = NotCalled
    /\ ToolsIdle

NextFormatTwice == FormatCall \/ FormatCallAgain \/ SinkChange

SpecFormatTwice == InitFormatTwice /\ [][NextFormatTwice]_vars

---------------------------------------------------------------------------
\* A generator tool's execute called directly, on the logged path or on the
\* path without the Galileo logger, for one response of the language model.

\* A text of n characters.
TextOfLen(n) == [i \in 1..n |-> "x"]

\* Responses of the language model: the short texts, a text padded with
\* white space, and texts at and over the length the prompt asks for.
GeneratorTexts ==
    LLMTexts \cup {<<" ", "x", " ">>}
        \cup {TextOfLen(n) : n \in {PitchLimit - 1, PitchLimit, PitchLimit + 1}}

InitGenerator ==
    /\ InitAgent
    /\ tool_registry = AllTools
    /\ galileo_ok = TRUE
    /\ fmt_results = <<>>
    /\ fmt_outcome = NotCalled
    /\ fmt_again = NotCalled
    /\ gen_tool \in Generators
    /\ gen_logger \in BOOLEAN
    /\ gen_response \in LLMResponses(GeneratorTexts)
    /\ gen_pitch = EmptyStr
    /\ gen_outcome = NotCalled
    /\ ContextIdle
    /\ RequestsIdle
    /\ WebIdle
    /\ logger_calls = <<>>
    /\ WrapperIdle

StartupSimulatorExecute ==
    /\ gen_tool = "startup_simulator"
    /\ gen_outcome = NotCalled
    /\ gen_outcome' = StartupSimulatorTool_execute(gen_logger, galileo_ok, gen_response)
    /\ gen_pitch' = IF gen_outcome'.kind = "return" THEN GeneratorPitch(gen_response)
                    ELSE gen_pitch
    /\ UNCHANGED <<mode, tool_registry, galileo_ok, runVars, fmtVars,
                   gen_tool, gen_logger, gen_response, ctxVars, reqVars, webVars,
                   logger_calls, wrapVars>>

SeriousStartupSimulatorExecute ==
    /\ gen_tool = "serious_startup_simulator"
    /\ gen_outcome = NotCalled
    /\ gen_outcome' =
           SeriousStartupSimulatorTool_execute(gen_logger, galileo_ok, gen_response)
    /\ gen_pitch' = IF gen_outcome'.kind = "return" THEN GeneratorPitch(gen_response)
                    ELSE gen_pitch
    /\ UNCHANGED <<mode, tool_registry, galileo_ok, runVars, fmtVars,
                   gen_tool, gen_logger, gen_response, ctxVars, reqVars, webVars,
                   logger_calls, wrapVars>>

NextGenerator == StartupSimulatorExecute \/ SeriousStartupSimulatorExecute

SpecGenerator == InitGenerator /\ [][NextGenerator]_vars

---------------------------------------------------------------------------
\* A context provider called directly on a fresh instance, outside an async
\* with, as the agent's wrappers call it.

InitContext ==
    /\ InitAgent
    /\ tool_registry = AllTools
    /\ galileo_ok = TRUE
    /\ fmt_results = <<>>
    /\ fmt_outcome = NotCalled
    /\ fmt_again = NotCalled
    /\ GeneratorIdle
    /\ RequestsIdle
    /\ WebIdle
    /\ logger_calls = <<>>
    /\ WrapperIdle
    /\ ctx_tool \in ContextProviders
    /\ ctx_logger \in BOOLEAN
    /\ ctx_env \in Environments
    /\ ctx_session = "none"
    /\ ctx_outcome = NotCalled

\* hn_tool = hn_tool_class(); await hn_tool.execute(limit=3)
HackerNewsExecute ==
    /\ ctx_tool = "hackernews_tool"
    /\ ctx_outcome = NotCalled
    /\ LET c == HackerNewsTool_execute(ctx_logger, galileo_ok, ctx_env)
       IN  /\ ctx_outcome' = c.outcome
           /\ ctx_session' = c.session
    /\ UNCHANGED <<mode, tool_registry, galileo_ok, runVars, fmtVars, genVars,
                   ctx_tool, ctx_logger, ctx_env, reqVars, webVars,
                   logger_calls, wrapVars>>

\* news_tool = news_tool_class(); await news_tool.execute(category, limit)
NewsAPIExecute ==
    /\ ctx_tool = "news_api_tool"
    /\ ctx_outcome = NotCalled
    /\ LET c == NewsAPITool_new_execute(ctx_env)
       IN  /\ ctx_outcome' = c.outcome
           /\ ctx_session' = c.session
    /\ UNCHANGED <<mode, tool_registry, galileo_ok, runVars, fmtVars, genVars,
                   ctx_tool, ctx_logger, ctx_env, reqVars, webVars,
                   logger_calls, wrapVars>>

NextContext == HackerNewsExecute \/ NewsAPIExecute

SpecContext == InitContext /\ [][NextContext]_vars

---------------------------------------------------------------------------
\* get_galileo_logger called by one caller after the other: the tools are
\* constructed one at a time, and each call runs to its return before the
\* next begins.  The logger can be created while GalileoLogger calls return
\* (and the environment names the project).

\* Faulty variant of get_galileo_logger: every call creates a logger.
GetLoggerCreatesAnew(global, sink_ok, fresh) ==
    IF ~sink_ok THEN [global |-> global, returned |-> 0]
    ELSE [global |-> fresh, returned |-> fresh]

\* get_galileo_logger(): the global after the call and the object returned
\* (0 for None); fresh is the object GalileoLogger(...) would create.
get_galileo_logger(global, sink_ok, fresh) ==
    IF global # 0 THEN [global |-> global, returned |-> global]
    ELSE IF ~sink_ok THEN [global |-> 0, returned |-> 0]
    ELSE [global |-> fresh, returned |-> fresh]

\* The tools whose __init__ stores get_galileo_logger().
LoggingTools == {"startup_simulator", "serious_startup_simulator", "hackernews_tool"}

InitLogger ==
    /\ InitAgent
    /\ tool_registry = AllTools
    /\ galileo_ok \in BOOLEAN
    /\ fmt_results = <<>>
    /\ fmt_outcome = NotCalled
    /\ fmt_again = NotCalled
    /\ ToolsIdle

\* A tool's __init__: self.galileo_logger = get_galileo_logger()
ToolInit ==
    /\ Len(logger_calls) < MaxCalls
    /\ \E tool \in LoggingTools :
          LET call == get_galileo_logger(_galileo_logger, galileo_ok,
                                         Len(logger_calls) + 1)
          IN  /\ _galileo_logger' = call.global
              /\ logger_calls' = Append(logger_calls,
                                        [tool |-> tool, logger |-> call.returned])
    /\ UNCHANGED <<mode, tool_registry, galileo_ok, runVars, fmtVars, genVars,
                   ctxVars, webVars, req_mode, req_pc, req_tool, tool_logger,
                   logger_trace, global_access, logger_access, wrapVars>>

NextLogger == ToolInit \/ SinkChange

SpecLogger == InitLogger /\ [][NextLogger]_vars

---------------------------------------------------------------------------
\* Requests handled at once: the web server runs each /api/generate request
\* on a thread of its own, with a new agent and new tool instances.  Every
\* tool but NewsAPITool takes its logger from get_galileo_logger(), which
\* hands out the one object kept in the module's global _galileo_logger.
\* The steps of two requests interleave.

InitRequests ==
    /\ InitAgent
    /\ tool_registry = AllTools
    /\ galileo_ok \in BOOLEAN
    /\ fmt_results = <<>>
    /\ fmt_outcome = NotCalled
    /\ fmt_again = NotCalled
    /\ ToolsIdle

\* What the steps of a request leave alone.
RequestFrame ==
    UNCHANGED <<mode, tool_registry, galileo_ok, runVars, fmtVars, genVars, ctxVars,
                webVars, logger_calls, wrapVars>>

\* Whether the tool the request is at takes the logger of the module.
UsesGalileoLogger(r) == ~(req_tool[r] = "context" /\ req_mode[r] = "serious")

\* The request goes on after a tool's execute: to the generator after the
\* context provider, to its end after the generator.
AfterExecute(r) ==
    IF req_tool[r] = "context"
    THEN /\ req_tool' = [req_tool EXCEPT ![r] = "generator"]
         /\ req_pc' = [req_pc EXCEPT ![r] = "new"]
    ELSE /\ req_pc' = [req_pc EXCEPT ![r] = "done"]
         /\ UNCHANGED req_tool

\* generate_startup up to the first tool: the mode of the request, a new
\* SimpleAgent, run.
RequestStart(r) ==
    /\ req_pc[r] = "idle"
    /\ \E m \in Modes : req_mode' = [req_mode EXCEPT ![r] = m]
    /\ req_pc' = [req_pc EXCEPT ![r] = "new"]
    /\ UNCHANGED <<_galileo_logger, req_tool, tool_logger, logger_trace,
                   global_access, logger_access>>
    /\ RequestFrame

\* The tool's __init__ up to the test in get_galileo_logger: the global is
\* read; an object found there is returned, None is returned when the
\* logger cannot be created, and otherwise the creation follows.
GetLoggerCheck(r) ==
    /\ req_pc[r] = "new"
    /\ IF ~UsesGalileoLogger(r)
       THEN /\ tool_logger' = [tool_logger EXCEPT ![r] = 0]
            /\ req_pc' = [req_pc EXCEPT ![r] = "execute"]
            /\ UNCHANGED global_access
       ELSE /\ global_access' =
                   [global_access EXCEPT !.readers = @ \cup {r}]
            /\ IF _galileo_logger # 0
               THEN /\ tool_logger' = [tool_logger EXCEPT ![r] = _galileo_logger]
                    /\ req_pc' = [req_pc EXCEPT ![r] = "execute"]
               ELSE IF ~galileo_ok
               THEN /\ tool_logger' = [tool_logger EXCEPT ![r] = 0]
                    /\ req_pc' = [req_pc EXCEPT ![r] = "execute"]
               ELSE /\ req_pc' = [req_pc EXCEPT ![r] = "create"]
                    /\ UNCHANGED tool_logger
    /\ UNCHANGED <<_galileo_logger, req_mode, req_tool, logger_trace, logger_access>>
    /\ RequestFrame

\* _galileo_logger = GalileoLogger(...); return _galileo_logger
GetLoggerCreate(r) ==
    /\ req_pc[r] = "create"
    /\ _galileo_logger' = r
    /\ global_access' = [global_access EXCEPT !.writers = @ \cup {r}]
    /\ tool_logger' = [tool_logger EXCEPT ![r] = r]
    /\ req_pc' = [req_pc EXCEPT ![r] = "execute"]
    /\ UNCHANGED <<req_mode, req_tool, logger_trace, logger_access>>
    /\ RequestFrame

\* execute with a logger: logger.start_trace(...) on the tool's logger.
TraceStart(r) ==
    /\ req_pc[r] = "execute"
    /\ tool_logger[r] # 0
    /\ logger_trace' = [logger_trace EXCEPT ![tool_logger[r]] = r]
    /\ logger_access' = [logger_access EXCEPT ![tool_logger[r]] = @ \cup {r}]
    /\ req_pc' = [req_pc EXCEPT ![r] = "tracing"]
    /\ UNCHANGED <<_galileo_logger, req_mode, req_tool, tool_logger, global_access>>
    /\ RequestFrame

\* The rest of execute with a logger: the spans, and logger.conclude(...),
\* which closes the trace that is open on the logger.
TraceConclude(r) ==
    /\ req_pc[r] = "tracing"
    /\ logger_trace' = [logger_trace EXCEPT ![tool_logger[r]] = 0]
    /\ logger_access' = [logger_access EXCEPT ![tool_logger[r]] = @ \cup {r}]
    /\ AfterExecute(r)
    /\ UNCHANGED <<_galileo_logger, req_mode, tool_logger, global_access>>
    /\ RequestFrame

\* execute of a tool without a logger.
ExecuteWithoutLogger(r) ==
    /\ req_pc[r] = "execute"
    /\ tool_logger[r] = 0
    /\ AfterExecute(r)
    /\ UNCHANGED <<_galileo_logger, req_mode, tool_logger, logger_trace,
                   global_access, logger_access>>
    /\ RequestFrame

NextRequests ==
    \E r \in Requests :
        \/ RequestStart(r)
        \/ GetLoggerCheck(r)
        \/ GetLoggerCreate(r)
        \/ TraceStart(r)
        \/ TraceConclude(r)
        \/ ExecuteWithoutLogger(r)

SpecRequests == InitRequests /\ [][NextRequests]_vars

---------------------------------------------------------------------------
\* The web server: one POST /api/generate request.  The
\* handler reads the body, answers 400 when a field is blank, and otherwise
\* constructs a SimpleAgent of the requested mode and runs it.

\* The tools agent.run invokes, in order: the branch on self.mode picks the
\* pair, and the generator is not reached when the context provider raises.
SimpleAgent_tools(m, registry, sink_ok, co, go) ==
    IF ~sink_ok THEN <<>>
    ELSE LET c == IF m = "serious"
                  THEN _execute_news_api_tool(registry, sink_ok, co)
                  ELSE _execute_hackernews_tool(registry, sink_ok, co)
             called(tool) == IF get_implementation(registry, tool) = "None"
                             THEN <<>> ELSE <<tool>>
         IN  called(ContextProviderOf(m)) \o
             (IF c.kind = "raise" THEN <<>> ELSE called(GeneratorOf(m)))

\* What the call of _format_result in agent.run does: NotCalled when the
\* run raises before it.
SimpleAgent_format(m, t, registry, sink_ok, co, go) ==
    IF ~sink_ok THEN NotCalled
    ELSE LET c == IF m = "serious"
                  THEN _execute_news_api_tool(registry, sink_ok, co)
                  ELSE _execute_hackernews_tool(registry, sink_ok, co)
             g == IF m = "serious"
                  THEN _execute_serious_startup_simulator(registry, sink_ok, go)
                  ELSE _execute_startup_simulator(registry, sink_ok, go)
         IN  IF c.kind = "raise" \/ g.kind = "raise" THEN NotCalled
             ELSE _format_result(t, << <<ContextLabelOf(m), c.val>>,
                                       <<GeneratorOf(m), g.val>> >>, sink_ok)

\* agent.run as one call: the steps of Spec one after the other, co and go
\* being what the context provider and the generator do.
SimpleAgent_run(m, t, registry, sink_ok, co, go) ==
    IF ~sink_ok THEN Raise("GalileoError")
    ELSE LET c == IF m = "serious"
                  THEN _execute_news_api_tool(registry, sink_ok, co)
                  ELSE _execute_hackernews_tool(registry, sink_ok, co)
             g == IF m = "serious"
                  THEN _execute_serious_startup_simulator(registry, sink_ok, go)
                  ELSE _execute_startup_simulator(registry, sink_ok, go)
         IN  IF c.kind = "raise" THEN c
             ELSE IF g.kind = "raise" THEN g
             ELSE LET res == << <<ContextLabelOf(m), c.val>>, <<GeneratorOf(m), g.val>> >>
                      f == _format_result(t, res, sink_ok)
                  IN  IF f.kind = "raise" THEN f
                      ELSE Return(json_dumps_workflow_result(
                                      WorkflowResult(m, t, f.val, res)))

\* The task run_agent writes for the mode.
TaskOf(m) ==
    IF m = "serious" THEN "generate a business plan" ELSE "generate a startup pitch"

\* run_agent: a new SimpleAgent of the mode, with every tool registered,
\* and its run on the task written for the mode.
run_agent(m, sink_ok, co, go) ==
    SimpleAgent_run(m, TaskOf(m), AllTools, sink_ok, co, go)

\* Faulty variant of ErrorResponse: the error is sent with status 200.
ErrorResponseWithStatusOk(e) == Response(200, "error", PyStr(<<e>>))

\* return jsonify({'error': str(e)}), 500
ErrorResponse(e) == Response(500, "error", PyStr(<<e>>))

\* generate_startup up to the validation: the response when the request is
\* turned away (NoResponse when it is not), and the mode asked for.
generate_startup_inputs(body) ==
    LET get(v, default) == IF v.kind = "absent" THEN default ELSE v.s
    IN  IF \/ ~body.json
           \/ \E v \in {body.industry, body.audience, body.randomWord, body.mode} :
                  v.kind = "other"
        THEN [response |-> ErrorResponse("AttributeError"),   \* no .get, no .strip
              mode |-> ""]
        ELSE LET industry == strip(get(body.industry, <<>>))
                 audience == strip(get(body.audience, <<>>))
                 random_word == strip(get(body.randomWord, <<>>))
                 m == strip(get(body.mode, <<"silly">>))
             IN  [response |->
                      IF industry = <<>> \/ audience = <<>> \/ random_word = <<>>
                      THEN Response(400, "error", PyStr(<<"All fields are required">>))
                      ELSE NoResponse,
                  mode |-> IF Len(m) = 1 THEN m[1] ELSE ""]

\* Faulty variant of generate_startup_result: the agent's return value is
\* sent as it is.
GenerateStartupSendsEnvelope(r) ==
    IF r.kind = "raise" THEN ErrorResponse(r.err)
    ELSE Response(200, "result", r.val)

\* generate_startup after run_agent: the response for what the run did.
generate_startup_result(r) ==
    IF r.kind = "raise" THEN ErrorResponse(r.err)
    ELSE LET parsed == json_loads(r.val.s)
             final_output ==
                 IF parsed.ok
                 THEN DictGet(parsed.val.m, FinalOutputKey,
                              PyStr(<<"No output generated">>))
                 ELSE r.val
         IN  IF parsed.ok /\ parsed.val.t # "dict"
             THEN ErrorResponse("AttributeError")             \* no .get
             ELSE IF final_output.t = "int"
             THEN ErrorResponse("TypeError")                  \* len()
             ELSE Response(200, "result", final_output)

\* The values a field of the body may have, and the bodies.
FieldValues == {Absent, NotAString, Str(<<>>), Str(<<" ">>), Str(<<"x">>)}
ModeValues ==
    {Absent, NotAString, Str(<<"silly">>), Str(<<" ", "serious", " ">>), Str(<<"x">>)}
Bodies ==
    [json : BOOLEAN, industry : FieldValues, audience : FieldValues,
     randomWord : FieldValues, mode : ModeValues]

InitWeb ==
    /\ InitAgent
    /\ tool_registry = AllTools
    /\ galileo_ok = TRUE
    /\ fmt_results = <<>>
    /\ fmt_outcome = NotCalled
    /\ fmt_again = NotCalled
    /\ ToolsIdle

GenerateStartup ==
    /\ web_response = NoResponse
    /\ \E body \in Bodies :
          LET inputs == generate_startup_inputs(body)
              serious == inputs.mode = "serious"
          IN  /\ web_body' = body
              /\ IF inputs.response # NoResponse
                 THEN /\ web_agent' = FALSE
                      /\ web_run' = NotCalled
                      /\ web_formatted' = NotCalled
                      /\ web_tools' = <<>>
                      /\ web_response' = inputs.response
                 ELSE \E co \in (IF serious THEN NewsAPIOutcomes
                                            ELSE HackerNewsOutcomes),
                         go \in (IF serious THEN SeriousStartupSimulatorOutcomes
                                            ELSE StartupSimulatorOutcomes) :
                        /\ web_agent' = TRUE
                        /\ web_run' = run_agent(inputs.mode, galileo_ok, co, go)
                        /\ web_formatted' =
                               SimpleAgent_format(inputs.mode, TaskOf(inputs.mode),
                                                  AllTools, galileo_ok, co, go)
                        /\ web_tools' =
                               SimpleAgent_tools(inputs.mode, AllTools, galileo_ok,
                                                 co, go)
                        /\ web_response' = generate_startup_result(web_run')
    /\ UNCHANGED <<mode, tool_registry, galileo_ok, runVars, fmtVars, genVars,
                   ctxVars, reqVars, logger_calls, wrapVars>>

NextWeb == GenerateStartup

SpecWeb == InitWeb /\ [][NextWeb]_vars

---------------------------------------------------------------------------
\* GalileoLoggerWrapper: constructed once, then called. wrapper._logger is
\* whether self._logger holds a GalileoLogger.

\* What the import and the constructor of GalileoLogger do: raise, return a
\* logger whose _client is missing or None, or return a logger with a client.
ConstructionOutcomes == {"raise", "no_client", "client"}

\* None, and the trace self._logger.start_trace returns.
PyNone == [t |-> "none"]
TraceObject == [t |-> "trace"]

\* What a call on the underlying GalileoLogger does.
UnderlyingOutcomes == {"return", "raise"}

\* GalileoLoggerWrapper.__init__
Wrapper_init(c) ==
    [constructed |-> TRUE, _logger |-> c # "raise", _is_initialized |-> c = "client"]

\* if not self._is_initialized or not self._logger: the early return is not taken
WrapperUsable(w) == w._is_initialized /\ w._logger

\* A call on the wrapper: the call it made on self._logger and what that
\* did ("none" when it made no call), what it did itself, and the object.
WrapperCall(op, underlying, outcome, w) ==
    [op |-> op, underlying |-> underlying, outcome |-> outcome,
     is_initialized |-> w._is_initialized]

\* GalileoLoggerWrapper.start_trace: the trace, or None
Wrapper_start_trace(w, u) ==
    IF ~WrapperUsable(w) THEN WrapperCall("start_trace", "none", Return(PyNone), w)
    ELSE IF u = "raise" THEN WrapperCall("start_trace", u, Return(PyNone), w)
    ELSE WrapperCall("start_trace", u, Return(TraceObject), w)

\* GalileoLoggerWrapper.add_llm_span
Wrapper_add_llm_span(w, u) ==
    IF ~WrapperUsable(w) THEN WrapperCall("add_llm_span", "none", Return(PyNone), w)
    ELSE WrapperCall("add_llm_span", u, Return(PyNone), w)

\* Faulty variant of Wrapper_conclude: the underlying error is not caught.
WrapperConcludePropagates(w, u) ==
    IF ~WrapperUsable(w) THEN WrapperCall("conclude", "none", Return(PyNone), w)
    ELSE IF u = "raise" THEN WrapperCall("conclude", u, Raise("GalileoError"), w)
    ELSE WrapperCall("conclude", u, Return(PyNone), w)

\* GalileoLoggerWrapper.conclude
Wrapper_conclude(w, u) ==
    IF ~WrapperUsable(w) THEN WrapperCall("conclude", "none", Return(PyNone), w)
    ELSE WrapperCall("conclude", u, Return(PyNone), w)

\* GalileoLoggerWrapper.flush
Wrapper_flush(w, u) ==
    IF ~WrapperUsable(w) THEN WrapperCall("flush", "none", Return(PyNone), w)
    ELSE WrapperCall("flush", u, Return(PyNone), w)

InitWrapper ==
    /\ InitAgent
    /\ tool_registry = AllTools
    /\ galileo_ok = TRUE
    /\ fmt_results = <<>>
    /\ fmt_outcome = NotCalled
    /\ fmt_again = NotCalled
    /\ ToolsIdle

WrapperFrame ==
    UNCHANGED <<mode, tool_registry, galileo_ok, runVars, fmtVars, genVars,
                ctxVars, reqVars, webVars, logger_calls>>

\* galileo_logger = GalileoLoggerWrapper(project=..., log_stream=...)
WrapperConstruct ==
    /\ ~wrapper.constructed
    /\ \E c \in ConstructionOutcomes :
          /\ wrapper' = Wrapper_init(c)
          /\ wrapper_calls' = <<WrapperCall("__init__", c, Return(PyNone), wrapper')>>
    /\ WrapperFrame

\* One call of start_trace, add_llm_span, conclude or flush on the wrapper.
WrapperMethod ==
    /\ wrapper.constructed
    /\ Len(wrapper_calls) <= MaxCalls
    /\ \E u \in UnderlyingOutcomes :
       \E call \in {Wrapper_start_trace(wrapper, u), Wrapper_add_llm_span(wrapper, u),
                     Wrapper_conclude(wrapper, u), Wrapper_flush(wrapper, u)} :
          wrapper_calls' = Append(wrapper_calls, call)
    /\ UNCHANGED wrapper
    /\ WrapperFrame

NextWrapper == WrapperConstruct \/ WrapperMethod

SpecWrapper == InitWrapper /\ [][NextWrapper]_vars

---------------------------------------------------------------------------
\* Properties.

\* The tool invocations of the current run that went to one of the tools.
CallsTo(tools) == {i \in 1..Len(tool_calls) : tool_calls[i].tool \in tools}

RunEnded == pc \in {"DONE", "FAILED"}

ContextRaised ==
    \E i \in CallsTo(ContextProviders) : tool_calls[i].outcome = "raise"

GeneratorRaised ==
    \E i \in CallsTo(Generators) : tool_calls[i].outcome = "raise"

\* C1: a run that has ended invoked the context provider of its mode exactly
\* once and the generator of its mode exactly once, the context provider
\* first, and no other tool (stated for the agent as __init__ builds it, with
\* every tool registered).
C1_OneProviderThenOneGenerator ==
    (RunEnded /\ tool_registry = AllTools) =>
        /\ Len(tool_calls) = 2
        /\ tool_calls[1].tool = ContextProviderOf(mode)
        /\ tool_calls[2].tool = GeneratorOf(mode)

\* C2: when the context provider raised, the run does not raise: it ends
\* with a pitch returned and the generator invoked with the empty context
\* (stated for the agent with every tool registered).
C2_ContextFailureDegrades ==
    (ContextRaised /\ RunEnded /\ tool_registry = AllTools) =>
        /\ run_outcome.kind = "return"
        /\ \E i \in CallsTo(Generators) : tool_calls[i].arg = EmptyStr

\* C3: when the generator raised, the run has failed with the generator's
\* error, _format_result was not called, and nothing was returned or
\* reported done.
C3_GeneratorFailurePropagates ==
    \A i \in CallsTo(Generators) :
        tool_calls[i].outcome = "raise" =>
            /\ pc = "FAILED"
            /\ run_outcome = Raise(tool_calls[i].err)
            /\ format_calls = 0
            /\ agent_done = <<>>

C3_Witness ==
    /\ GeneratorRaised
    /\ pc = "FAILED"
    /\ Len(results) = 1

\* C4: when the registry lacks the context provider of the mode, the context
\* phase does not raise, the context is the empty string, and the generator
\* phase comes next and invokes the generator (when registered) with the
\* empty context.
C4_MissingProviderDegrades ==
    (get_implementation(tool_registry, ContextProviderOf(mode)) = "None"
     /\ Len(phases) >= 2) =>
        /\ phases[2] = "DEGRADED"
        /\ CallsTo(ContextProviders) = {}
        /\ context = EmptyStr
        /\ results[1] = <<ContextLabelOf(mode), EmptyStr>>
        /\ pc = "DEGRADED" => ENABLED GeneratePhase
        /\ \A i \in CallsTo(Generators) : tool_calls[i].arg = EmptyStr
        /\ (Len(phases) >= 3 /\ GeneratorOf(mode) \in tool_registry) =>
               CallsTo(Generators) # {}

C4_Witness ==
    /\ get_implementation(tool_registry, ContextProviderOf(mode)) = "None"
    /\ pc = "DONE"
    /\ \E i \in CallsTo(Generators) :
           tool_calls[i].arg = EmptyStr /\ tool_calls[i].outcome = "return"

\* C5: when the registry lacks the generator of the mode, a run that returns
\* returns the sentinel "No startup pitch generated." as its final_output.
C5_MissingGeneratorSentinel ==
    (get_implementation(tool_registry, GeneratorOf(mode)) = "None"
     /\ run_outcome.kind = "return") =>
        run_outcome.val.final_output = NoPitchSentinel

\* C6: when the registry lacks the generator of the mode, the run never
\* returns a success envelope.
C6_MissingGeneratorFatal ==
    get_implementation(tool_registry, GeneratorOf(mode)) = "None" =>
        run_outcome.kind # "return"

\* C7: the phases of a run follow INIT, CONTEXT_FETCHED or DEGRADED,
\* GENERATED, FORMATTED, DONE, and a run fails only from a generator failure
\* (stated for the agent with every tool registered).
PhaseOrder == <<{"INIT"}, {"CONTEXT_FETCHED", "DEGRADED"}, {"GENERATED"},
                {"FORMATTED"}, {"DONE"}>>

C7_PhasesInOrderFailOnlyInGenerator ==
    tool_registry = AllTools =>
    /\ \A i \in 1..Len(phases) :
           \/ i <= Len(PhaseOrder) /\ phases[i] \in PhaseOrder[i]
           \/ i = Len(phases) /\ phases[i] = "FAILED"
    /\ pc = "FAILED" => (GeneratorRaised /\ Len(phases) = 3)

\* C8: no run fails because a GalileoLogger call raised (stated for the
\* agent with every tool registered).
C8_SinkFailureContained ==
    tool_registry = AllTools =>
        ~(run_outcome.kind = "raise" /\ run_outcome.err = "GalileoError")

\* The raw_output of the one generator entry of the list passed to the
\* direct call of _format_result.
GeneratorEntries == {i \in 1..Len(fmt_results) : fmt_results[i][1] \in Generators}
GeneratorRaw == fmt_results[CHOOSE i \in GeneratorEntries : TRUE][2]
Formatted == fmt_outcome.kind # "none" /\ Cardinality(GeneratorEntries) = 1

\* C9: for every string x, _format_result returns x when the generator
\* entry's raw_output is the JSON encoding of an object with pitch x, and
\* when it is a record with pitch x.
C9_FormatExtractsPitch ==
    Formatted =>
        \A x \in LLMTexts : \A o \in ObjectsWithPitch(x) :
            (GeneratorRaw = PyStr(json_dumps(o)) \/ GeneratorRaw = o) =>
                fmt_outcome = Return(PyStr(x))

C9_Witness ==
    /\ Formatted
    /\ \E o \in ObjectsWithPitch(<<DQ, BS>>) : GeneratorRaw = PyStr(json_dumps(o))
    /\ fmt_outcome = Return(PyStr(<<DQ, BS>>))

\* C10: when the generator entry's raw_output is a string that does not
\* decode as JSON, _format_result returns that string and does not raise.
C10_UndecodableReturnedVerbatim ==
    (Formatted /\ GeneratorRaw.t = "str" /\ ~json_loads(GeneratorRaw.s).ok) =>
        fmt_outcome = Return(GeneratorRaw)

C10_Witness ==
    /\ Formatted
    /\ GeneratorRaw = PyStr(Truncated(json_dumps(PyDict(<< <<PitchKey, PyStr(<<"x">>)>> >>))))
    /\ fmt_outcome = Return(GeneratorRaw)

\* C11: whenever the generator entry's raw_output is a string or a record,
\* _format_result returns a string and does not raise.
C11_FormatNeverRaises ==
    (Formatted /\ GeneratorRaw.t \in {"str", "dict"}) =>
        /\ fmt_outcome.kind = "return"
        /\ fmt_outcome.val.t = "str"

\* C12: for a results list without a startup_simulator or
\* serious_startup_simulator entry (the empty list included), _format_result
\* returns the sentinel "No startup pitch generated." and does not raise.
C12_NoGeneratorEntrySentinel ==
    (fmt_outcome.kind # "none" /\ GeneratorEntries = {}) =>
        fmt_outcome = Return(NoPitchSentinel)

C12_Witness ==
    /\ fmt_results = << <<"news_api", ContextOutput("news_api_tool", <<"x">>)>> >>
    /\ fmt_outcome = Return(NoPitchSentinel)

\* C13: _format_result extracts from the first entry named after the
\* generator of the agent's mode: what it returns is what the extraction
\* gives for that entry, whatever other entries the list holds.
C13_PitchFromGeneratorOfMode ==
    fmt_outcome.kind # "none" =>
        LET i == FirstEntry(fmt_results, GeneratorOf(mode))
        IN  i # 0 => fmt_outcome = FormatEntry(fmt_results[i][2])

\* C14: two calls of _format_result on the same results list have the same
\* outcome, whatever their task arguments and whatever the sink did between
\* them.
C14_FormatDeterministic ==
    (fmt_outcome.kind # "none" /\ fmt_again.kind # "none") =>
        fmt_again = fmt_outcome

\* C15: the pitch in the result a generator tool returns has at most 500
\* characters, on the logged path and on the path without the logger.
C15_PitchAtMostLimit ==
    gen_outcome.kind = "return" =>
        /\ Len(gen_pitch.s) <= PitchLimit
        /\ gen_outcome.val = GeneratorOutput(gen_tool, IF gen_tool = "startup_simulator"
                                                       THEN "silly" ELSE "serious",
                                             gen_pitch.s)

\* C16: the context a generator invocation received is the value the
\* context phase of the same run produced (the run's context entry), it was
\* passed to at most one invocation, and to exactly one once the run is past
\* the generator phase with the generator registered.
C16_ContextOfSameRunToOneGenerator ==
    /\ \A i \in CallsTo(Generators) :
           /\ Len(results) >= 1
           /\ results[1][1] = ContextLabelOf(mode)
           /\ tool_calls[i].arg = results[1][2]
    /\ Cardinality(CallsTo(Generators)) <= 1
    /\ (pc \in {"GENERATED", "FORMATTED", "DONE"}
        /\ get_implementation(tool_registry, GeneratorOf(mode)) # "None") =>
           Cardinality(CallsTo(Generators)) = 1

\* A second run whose generator received a context other than the one the
\* first run produced.
C16_Witness ==
    /\ runs = 2
    /\ pc = "DONE"
    /\ prev_context # EmptyStr
    /\ \E i \in CallsTo(Generators) :
           /\ tool_calls[i].arg # prev_context
           /\ tool_calls[i].arg # EmptyStr
           /\ tool_calls[i].arg = results[1][2]

\* C17: when execute of a context provider has returned or raised, the
\* session the tool created is not open.
C17_SessionClosedAfterExecute ==
    ctx_outcome.kind # "none" => ctx_session # "open"

\* A request or a payload decode failed inside execute of the context
\* provider called directly.
RequestFailed ==
    IF ctx_tool = "news_api_tool"
    THEN ctx_env.api_key /\ ctx_env.listing # "ok"
    ELSE \/ ctx_env.listing # "ok"
         \/ ctx_env.titles # <<>> /\ ctx_env.item # "ok"

\* C18: when a request or a payload decode failed inside execute of a
\* context provider, execute has raised.
C18_FailureRaises ==
    (ctx_outcome.kind # "none" /\ RequestFailed) => ctx_outcome.kind = "raise"

\* The tools a run invoked and the arguments it gave them, in order.
Invocations(calls) ==
    [i \in 1..Len(calls) |-> [tool |-> calls[i].tool, arg |-> calls[i].arg]]

\* C19: a run that ended, with a task other than the task of the run before
\* it on an agent of the same mode and with the same tool responses, invoked
\* the same tools with the same arguments in the same order, and ended the
\* same way: it raised the same error or returned the same final_output.
C19_TaskDoesNotAlterRun ==
    (RunEnded /\ prev_run.n >= 1 /\ task # prev_run.task /\ SameResponses) =>
        /\ Invocations(tool_calls) = Invocations(prev_run.tool_calls)
        /\ run_outcome.kind = prev_run.run_outcome.kind
        /\ run_outcome.err = prev_run.run_outcome.err
        /\ run_outcome.kind = "return" =>
               run_outcome.val.final_output = prev_run.run_outcome.val.final_output

\* Two runs with different tasks that both invoked the context provider
\* and the generator and returned a pitch.
C19_Witness ==
    /\ pc = "DONE"
    /\ prev_run.n = 1
    /\ task # prev_run.task
    /\ SameResponses
    /\ Len(tool_calls) = 2
    /\ run_outcome.val.final_output = PyStr(<<"x", DQ>>)
    /\ prev_run.run_outcome.val.final_output = PyStr(<<"x", DQ>>)


\* C20: no request reads or writes a variable or an object that another
\* request writes: the global _galileo_logger and every logger object are
\* written by one request at most, and read by no other.
C20_NoSharedMutableState ==
    /\ \A w \in global_access.writers :
           global_access.readers \cup global_access.writers \subseteq {w}
    /\ \A l \in Requests : \A w \in logger_access[l] : logger_access[l] \subseteq {w}


\* C21: no step of a run assigns self.mode, and every tool a run invokes is
\* the context provider or the generator of that one mode.
C21_ModeFixedAtConstruction ==
    [][/\ mode' = mode
       /\ \A i \in 1..Len(tool_calls') :
              tool_calls'[i].tool \in {ContextProviderOf(mode), GeneratorOf(mode)}]_vars

\* A second run on the agent has invoked the pair of the agent's mode.
C21_Witness ==
    /\ runs = 2
    /\ pc = "DONE"
    /\ Len(tool_calls) = 2
    /\ tool_calls[1].tool = ContextProviderOf(mode)
    /\ tool_calls[2].tool = GeneratorOf(mode)

\* C22: no step of a run, of one that returns or of one that raises,
\* registers, replaces or removes a registry entry.
C22_RegistryFrozenAfterInit == [][tool_registry' = tool_registry]_vars

\* A second run has failed on an agent whose registry lacks a tool the runs
\* looked up.
C22_Witness ==
    /\ runs = 2
    /\ pc = "FAILED"
    /\ ContextProviderOf(mode) \notin tool_registry
    /\ Len(tool_calls) = 1


\* What json.loads makes of the string the run returned.
Envelope == json_loads(returned.s)

\* envelope.get(key)
EnvelopeGet(key) == DictGet(Envelope.val.m, key, PyInt(0))

\* C23: a run that succeeds returns a JSON object whose mode is the agent's
\* mode, whose final_output is the string _format_result returned in the
\* run, whose execution_status is "success", and whose tools_used is the
\* name of the mode's context provider followed by the name of the mode's
\* generator.
C23_SuccessEnvelope ==
    (run_outcome.kind = "return" /\ tool_registry = AllTools) =>
        /\ Envelope.ok
        /\ Envelope.val.t = "dict"
        /\ EnvelopeGet(WorkflowModeKey) = PyStr(<<mode>>)
        /\ EnvelopeGet(FinalOutputKey) = formatted_result
        /\ EnvelopeGet(ExecutionStatusKey) = PyStr(<<"success">>)
        /\ EnvelopeGet(ToolsUsedKey) =
               PyList(<<PyStr(<<ContextProviderOf(mode)>>),
                        PyStr(<<GeneratorOf(mode)>>)>>)


\* The names an invoked tool may go by in tools_used: its registered name,
\* or the label run gives the context provider's entry.
NamesOfInvoked ==
    {tool_calls[i].tool : i \in 1..Len(tool_calls)}
    \cup {ContextLabelOf(mode) : i \in {j \in 1..Len(tool_calls) :
                                           tool_calls[j].tool = ContextProviderOf(mode)}}

\* C24: every element of the tools_used a run returns names a tool the run
\* invoked; a tool whose lookup found nothing is not among them (stated for
\* the runs whose generator is registered).
C24_ToolsUsedWereInvoked ==
    (run_outcome.kind = "return" /\ Envelope.ok
         /\ GeneratorOf(mode) \in tool_registry) =>
        LET used == EnvelopeGet(ToolsUsedKey)
        IN  /\ used.t = "list"
            /\ \A k \in 1..Len(used.l) :
                   /\ used.l[k].t = "str"
                   /\ Len(used.l[k].s) = 1
                   /\ used.l[k].s[1] \in NamesOfInvoked


\* C25: a response is a result with status 200 or an error with another
\* status; a run that raised is answered with an error and status 500, and
\* a result is sent only for a run that returned.
C25_ResultOrError ==
    web_response # NoResponse =>
        /\ \/ web_response.key = "result" /\ web_response.status = 200
           \/ web_response.key = "error" /\ web_response.status \in {400, 500}
        /\ web_run.kind = "raise" =>
               web_response = Response(500, "error", PyStr(<<web_run.err>>))
        /\ web_response.key = "result" => web_run.kind = "return"

\* A run raised and the handler answered with the error.
C25_Witness ==
    /\ web_agent
    /\ web_run = Raise("OpenAIError")
    /\ web_response.status = 500
    /\ web_response.key = "error"


\* A field that is missing, or empty after trimming white space.
Blank(v) == v.kind = "absent" \/ (v.kind = "str" /\ strip(v.s) = <<>>)

\* C30: a request whose JSON object lacks industry, audience or randomWord,
\* or has one of them blank, is answered with an error and status 400, and
\* no agent is constructed or run for it.
C30_BlankFieldRejected ==
    (/\ web_response # NoResponse
     /\ web_body.json
     /\ \E v \in {web_body.industry, web_body.audience, web_body.randomWord} :
            Blank(v)) =>
        /\ web_response.status = 400
        /\ web_response.key = "error"
        /\ ~web_agent
        /\ web_run = NotCalled


\* C26: once a call of get_galileo_logger has returned a logger, every later
\* call returns that object, so the tools constructed from then on hold one
\* and the same logger.
C26_SingletonAccessor ==
    \A i, j \in 1..Len(logger_calls) :
        (i < j /\ logger_calls[i].logger # 0) =>
            logger_calls[j].logger = logger_calls[i].logger

\* A call returned None, a later call created the logger, and two tools of
\* different classes constructed after that hold it.
C26_Witness ==
    /\ Len(logger_calls) = 4
    /\ logger_calls[1].logger = 0
    /\ logger_calls[2].logger = 2
    /\ logger_calls[3] = [tool |-> "startup_simulator", logger |-> 2]
    /\ logger_calls[4] = [tool |-> "hackernews_tool", logger |-> 2]
    /\ ~galileo_ok


\* C27: the results list is empty when a run starts, whatever the run
\* before left in it; within a run it only grows at its end; and
\* _format_result is called on exactly two entries, the context provider's
\* followed by the generator's.
C27_ResultsAppendOnlyPerRun ==
    [][/\ runs' # runs => results' = <<>>
       /\ runs' = runs =>
              /\ Len(results') >= Len(results)
              /\ SubSeq(results', 1, Len(results)) = results
       /\ (runs' = runs /\ format_calls' # format_calls) =>
              /\ Len(results) = 2
              /\ results[1][1] = ContextLabelOf(mode)
              /\ results[2][1] = GeneratorOf(mode)
              /\ results' = results]_vars

\* A second run, on an agent whose first run ended with two entries of
\* other content, has reached formatting with its own two entries.
C27_Witness ==
    /\ runs = 2
    /\ pc = "FORMATTED"
    /\ format_calls = 1
    /\ Len(results) = 2
    /\ prev_context # EmptyStr
    /\ results[1][2] # EmptyStr
    /\ results[1][2] # prev_context


TraceNames == {trace_log[i].trace : i \in 1..Len(trace_log)}

\* The calls of op on the trace in the current run.
CallsOf(op, name) ==
    Cardinality({i \in 1..Len(trace_log) :
                     trace_log[i].op = op /\ trace_log[i].trace = name})

\* C29: every trace that run, a wrapper or _format_result started is
\* concluded exactly once: never more often than it was started, a wrapper's
\* and _format_result's trace by the time the call is over, and run's by the
\* time the run has returned or raised, also when on_agent_done raises after
\* the success conclude.
C29_TracesConcludedOnce ==
    \A name \in TraceNames :
        /\ CallsOf("start_trace", name) = 1
        /\ CallsOf("conclude", name) <= 1
        /\ (name # RunTrace \/ pc \in {"DONE", "FAILED"}) =>
               CallsOf("conclude", name) = 1


\* C31: when the run of a request returned, the result field of the response
\* is the string _format_result returned in that run, and not the envelope
\* run returned; the envelope is valid JSON, so the raw value is never sent.
C31_ResultIsFormattedResult ==
    web_run.kind = "return" =>
        /\ web_formatted.kind = "return"
        /\ json_loads(web_run.val.s).ok
        /\ web_response = Response(200, "result", web_formatted.val)
        /\ web_response.value # web_run.val

\* A request whose run returned a pitch that json.dumps had to escape.
C31_Witness ==
    /\ web_run.kind = "return"
    /\ web_formatted = Return(PyStr(<<"x", BS>>))
    /\ web_response.key = "result"
    /\ web_response.value = PyStr(<<"x", BS>>)


\* The request names its three fields, each a string that is not blank.
FieldsGiven ==
    /\ web_body.json
    /\ \A v \in {web_body.industry, web_body.audience, web_body.randomWord} :
           v.kind = "str" /\ strip(v.s) # <<>>

\* The request asks for the serious mode.
AsksSerious == web_body.mode.kind = "str" /\ strip(web_body.mode.s) = <<"serious">>

\* The run invoked hackernews_tool and then, unless that raised,
\* startup_simulator, and nothing else.
RanSillyPipeline ==
    /\ web_agent
    /\ web_tools \in {<<"hackernews_tool">>, <<"hackernews_tool", "startup_simulator">>}
    /\ web_run.kind = "return" => Len(web_tools) = 2

\* C32: a request with its fields given and any mode value other than
\* "serious" (absent, an unknown string, or any other value) runs the silly
\* pipeline, hackernews_tool then startup_simulator: no mode value has the
\* request turned away, or run invoke no tool or a mixed pair.
C32_NonSeriousModeRunsSilly ==
    (web_response # NoResponse /\ FieldsGiven /\ ~AsksSerious) => RanSillyPipeline


\* C33: under concurrent calls of get_galileo_logger at most one
\* GalileoLogger is ever created (the global is written by one caller
\* only), and the callers that were given a logger were given the same one.
C33_OneLoggerUnderConcurrency ==
    /\ Cardinality(global_access.writers) <= 1
    /\ \A r1, r2 \in Requests :
           (tool_logger[r1] # 0 /\ tool_logger[r2] # 0) =>
               tool_logger[r1] = tool_logger[r2]


\* C34: no call on a GalileoLoggerWrapper raises, whatever the construction
\* and the underlying logger did; a wrapper that is not initialized makes no
\* call on the underlying logger and its start_trace returns None; and
\* is_initialized is after every call what it was after construction.
C34_WrapperNeverPropagates ==
    \A i \in 1..Len(wrapper_calls) :
        LET call == wrapper_calls[i]
        IN  /\ call.outcome.kind = "return"
            /\ call.is_initialized = wrapper_calls[1].is_initialized
            /\ (i > 1 /\ ~wrapper_calls[1].is_initialized) =>
                   /\ call.underlying = "none"
                   /\ call.outcome = Return(PyNone)

\* An initialized wrapper whose start_trace returned the trace and whose
\* underlying conclude raised.
C34_Witness ==
    /\ Len(wrapper_calls) = 3
    /\ wrapper_calls[1].is_initialized
    /\ wrapper_calls[2] = WrapperCall("start_trace", "return", Return(TraceObject), wrapper)
    /\ wrapper_calls[3] = WrapperCall("conclude", "raise", Return(PyNone), wrapper)


\* execute of the generator tool on an instance whose self.galileo_logger
\* is set (logger) or None.
GeneratorExecute(tool, logger, response) ==
    IF tool = "startup_simulator"
    THEN StartupSimulatorTool_execute(logger, galileo_ok, response)
    ELSE SeriousStartupSimulatorTool_execute(logger, galileo_ok, response)

\* The value under key of the JSON object the tool returned.
GeneratorField(outcome, key) == DictGet(json_loads(outcome.val.s).val.m, key, PyInt(0))

C36_HackerNewsPathsAgree ==
    (ctx_tool = "hackernews_tool" /\ ctx_outcome # NotCalled) =>
        LET other == HackerNewsTool_execute(~ctx_logger, galileo_ok, ctx_env).outcome
        IN  /\ other.kind = ctx_outcome.kind
            /\ ctx_outcome.kind = "return" => other.val = ctx_outcome.val

===========================================================================
